---- MODULE Spec2Model ----
(***************************************************************************)
(* Model of calculator.py: four pydantic shape classes (Circle, Square,    *)
(* Triangle, Cube), their area()/volume() methods, the wrappers            *)
(* calculate_area / calculate_volume and total_area_optimized.             *)
(*                                                                         *)
(* Numbers.  Every field is a Python float.  A float is modelled as a      *)
(* binary floating-point number with MantBits significant bits whose       *)
(* smallest step is 2^-FracBits: a value is an integer count of such       *)
(* steps, and the result of every arithmetic operation is the exact        *)
(* result rounded to the nearest representable value, ties to even, as     *)
(* IEEE-754 does.  The exponent range is not bounded above: float          *)
(* overflow (the OverflowError of the power operator, the inf of a         *)
(* product) is outside this model.                                         *)
(***************************************************************************)
EXTENDS Integers, Sequences, FiniteSets, TLC

VARIABLES shapes, last

vars == <<shapes, last>>

---------------------------------------------------------------------------
(* Bounds of the model *)

MantBits == 4
FracBits == 3
MaxVal == 2
MaxShapes == 1
MaxList == 3

Scale == 2 ^ FracBits

\* numbers a caller passes to a constructor or assigns to a field
Values == (0 - 1) .. MaxVal

---------------------------------------------------------------------------
(* Floating-point arithmetic *)

Abs(x) == IF x < 0 THEN 0 - x ELSE x

RECURSIVE ExpOf(_, _, _)
\* the exponent e >= 0 of the binade of a / d: the least e with a/d < 2^(MantBits+e)
ExpOf(a, d, e) == IF a < d * 2 ^ (MantBits + e) THEN e ELSE ExpOf(a, d, e + 1)

\* the float nearest to the rational num / den (den > 0), ties to even
RoundRat(num, den) ==
    LET a == Abs(num)
        e == ExpOf(a, den, 0)
        q == den * 2 ^ e
        n == a \div q
        r == a % q
        m == IF 2 * r > q \/ (2 * r = q /\ n % 2 = 1) THEN n + 1 ELSE n
    IN  IF num < 0 THEN 0 - (m * 2 ^ e) ELSE m * 2 ^ e

\* int -> float, as pydantic coerces a field declared float
FromNum(n) == RoundRat(n * Scale, 1)

FAdd(x, y) == RoundRat(x + y, 1)
FMul(x, y) == RoundRat(x * y, Scale)
FDiv(x, y) == IF y < 0 THEN RoundRat(0 - x * Scale, 0 - y) ELSE RoundRat(x * Scale, y)
FPow(x, n) == RoundRat(x ^ n, Scale ^ (n - 1))

\* math.pi: the float nearest to pi (355/113 is within 3e-7 of pi)
pi == RoundRat(355 * Scale, 113)

\* the literal (4/3): true division of two ints
FourThirds == RoundRat(4 * Scale, 3)

---------------------------------------------------------------------------
(* The shape classes *)

\* the fields each class declares
Fields(kind) ==
    CASE kind = "Circle"   -> {"radius"}
      [] kind = "Square"   -> {"side"}
      [] kind = "Triangle" -> {"base", "height"}
      [] kind = "Cube"     -> {"side"}

\* @validator check_positive: raises ValueError when value <= 0
check_positive(value) == IF value <= 0 THEN "ValueError" ELSE "ok"

\* Field(..., gt=0)
GtZero(value) == value > 0

\* the fields of `input` that fail validation
FieldErrors(input) ==
    {f \in Fields(input.kind) :
        \/ check_positive(FromNum(input[f])) = "ValueError"
        \/ ~GtZero(FromNum(input[f]))}

\* the instance BaseModel.__init__ builds: each field coerced to float
Coerced(input) ==
    [f \in DOMAIN input |-> IF f = "kind" THEN input[f] ELSE FromNum(input[f])]

\* variant: the bound written as value < 0, so that zero passes
Construct_ZeroAccepted(input) ==
    IF \E f \in Fields(input.kind) : FromNum(input[f]) < 0
    THEN [raised |-> "ValidationError", instance |-> <<>>]
    ELSE [raised |-> "none", instance |-> <<Coerced(input)>>]

\* Kind(**input): ValidationError if any field fails, else the instance
Construct(input) ==
    IF FieldErrors(input) # {}
    THEN [raised |-> "ValidationError", instance |-> <<>>]
    ELSE [raised |-> "none", instance |-> <<Coerced(input)>>]

CircleArea(self) == FMul(pi, FPow(self.radius, 2))
CircleVolume(self) == FMul(FMul(FourThirds, pi), FPow(self.radius, 3))

SquareArea(self) == FPow(self.side, 2)
SquareVolume(self) == FPow(self.side, 3)

TriangleArea(self) == FDiv(FMul(self.base, self.height), FromNum(2))
\* variant: the prism extruded along the height instead of the base
TriangleVolume_AlongHeight(self) ==
    FMul(FDiv(FMul(self.base, self.height), FromNum(2)), self.height)

TriangleVolume(self) == FMul(FDiv(FMul(self.base, self.height), FromNum(2)), self.base)

\* variant: six times the side, the square forgotten
CubeArea_SixSides(self) == FMul(FromNum(6), self.side)

CubeArea(self) == FMul(FromNum(6), FPow(self.side, 2))
CubeVolume(self) == FPow(self.side, 3)

\* shape.area(): dispatch on the class of the instance
Area(shape) ==
    CASE shape.kind = "Circle"   -> CircleArea(shape)
      [] shape.kind = "Square"   -> SquareArea(shape)
      [] shape.kind = "Triangle" -> TriangleArea(shape)
      [] shape.kind = "Cube"     -> CubeArea(shape)

\* shape.volume()
Volume(shape) ==
    CASE shape.kind = "Circle"   -> CircleVolume(shape)
      [] shape.kind = "Square"   -> SquareVolume(shape)
      [] shape.kind = "Triangle" -> TriangleVolume(shape)
      [] shape.kind = "Cube"     -> CubeVolume(shape)

\* constructor inputs a caller can write
Inputs ==
    {[kind |-> "Circle", radius |-> r] : r \in Values}
    \cup {[kind |-> "Square", side |-> s] : s \in Values}
    \cup {[kind |-> "Cube", side |-> s] : s \in Values}
    \cup {[kind |-> "Triangle", base |-> b, height |-> h] : b \in Values, h \in Values}

---------------------------------------------------------------------------
(* The module-level functions *)

\* what a call gives back: a returned float, or a raised exception; diag is
\* the print(e.json()) of the except branch
Return(v) == [raised |-> "none", value |-> v, diag |-> FALSE]
Raise(exc) == [raised |-> exc, value |-> 0, diag |-> FALSE]
Sentinel == [raised |-> "none", value |-> 0, diag |-> TRUE]

\* shape.area() / shape.volume() as the body of a try block; neither method
\* validates anything, so neither raises
TryArea(shape) == Return(Area(shape))
TryVolume(shape) == Return(Volume(shape))

\* try: return shape.area()  except ValidationError: print(...); return 0.0
Except(r) == IF r.raised = "ValidationError" THEN Sentinel ELSE r

calculate_area(shape) == Except(TryArea(shape))
calculate_volume(shape) == Except(TryVolume(shape))

\* variant: the constructor call sits inside the try block of the wrapper
calculate_area_guarded(input) ==
    LET c == Construct(input) IN
    IF c.raised # "none" THEN Except(Raise(c.raised)) ELSE calculate_area(c.instance[1])

\* f(Kind(**input)): the argument is evaluated before f is entered, so an
\* exception of the constructor leaves the call expression without entering f
calculate_area_of(input) ==
    LET c == Construct(input) IN
    IF c.raised # "none" THEN Raise(c.raised) ELSE calculate_area(c.instance[1])

calculate_volume_of(input) ==
    LET c == Construct(input) IN
    IF c.raised # "none" THEN Raise(c.raised) ELSE calculate_volume(c.instance[1])

RECURSIVE SumFrom(_, _, _, _)
\* sum(): start at 0, add the items left to right; `seen` is the order in
\* which the generator called area()
SumFrom(list, i, acc, seen) ==
    IF i > Len(list)
    THEN [total |-> acc, visited |-> seen]
    ELSE SumFrom(list, i + 1, FAdd(acc, Area(list[i])), Append(seen, i))

\* variant: every shape is validated again before it is summed
total_area_revalidating(list) ==
    LET r == SumFrom(list, 1, 0, <<>>) IN
    IF \E i \in 1 .. Len(list) : \E f \in Fields(list[i].kind) :
          check_positive(list[i][f]) = "ValueError"
    THEN [raised |-> "ValidationError", value |-> 0, visited |-> r.visited, list |-> list]
    ELSE [raised |-> "none", value |-> r.total, visited |-> r.visited, list |-> list]

\* variant: the first item is taken as the start value and not added
total_area_skip_first(list) ==
    LET r == SumFrom(list, 2, 0, <<>>) IN
    [raised |-> "none", value |-> r.total, visited |-> r.visited, list |-> list]

\* sum(shape.area() for shape in shapes); the argument list is not written
total_area_optimized(list) ==
    LET r == SumFrom(list, 1, 0, <<>>) IN
    [raised |-> "none", value |-> r.total, visited |-> r.visited, list |-> list]

\* instance.field = v in a caller: BaseModel without a Config allows the
\* assignment and runs no validator on it
SetAttr(shape, f, v) == [shape EXCEPT ![f] = FromNum(v)]

---------------------------------------------------------------------------
(* State machine *)

NoArg == [kind |-> "none"]

Outcome(op, arg, r, seen) ==
    [op |-> op, arg |-> arg, raised |-> r.raised, value |-> r.value,
     diag |-> r.diag, visited |-> seen]

Init ==
    /\ shapes = <<>>
    /\ last = Outcome("none", NoArg, Return(0), <<>>)

\* shapes.append(Kind(**input)) in a caller
New(input) ==
    LET c == Construct(input) IN
    /\ Len(shapes) + Len(c.instance) <= MaxShapes
    /\ shapes' = shapes \o c.instance
    /\ last' = Outcome("construct", input, Raise(c.raised), <<>>)

\* shapes[i].area()
CallArea(i) ==
    /\ last' = Outcome("area", shapes[i], TryArea(shapes[i]), <<>>)
    /\ UNCHANGED shapes

\* shapes[i].volume()
CallVolume(i) ==
    /\ last' = Outcome("volume", shapes[i], TryVolume(shapes[i]), <<>>)
    /\ UNCHANGED shapes

\* calculate_area(shapes[i])
CallCalculateArea(i) ==
    /\ last' = Outcome("calculate_area", shapes[i], calculate_area(shapes[i]), <<>>)
    /\ UNCHANGED shapes

\* calculate_volume(shapes[i])
CallCalculateVolume(i) ==
    /\ last' = Outcome("calculate_volume", shapes[i], calculate_volume(shapes[i]), <<>>)
    /\ UNCHANGED shapes

\* calculate_area(Kind(**input))
CallCalculateAreaOf(input) ==
    /\ last' = Outcome("calculate_area_of", input, calculate_area_of(input), <<>>)
    /\ UNCHANGED shapes

\* calculate_volume(Kind(**input))
CallCalculateVolumeOf(input) ==
    /\ last' = Outcome("calculate_volume_of", input, calculate_volume_of(input), <<>>)
    /\ UNCHANGED shapes

\* total_area_optimized(shapes)
CallTotalArea ==
    LET r == total_area_optimized(shapes) IN
    /\ shapes' = r.list
    /\ last' = Outcome("total_area_optimized", NoArg,
                       [raised |-> r.raised, value |-> r.value, diag |-> FALSE], r.visited)

\* shapes[i].f = v
Assign(i, f, v) ==
    /\ shapes' = [shapes EXCEPT ![i] = SetAttr(shapes[i], f, v)]
    /\ last' = Outcome("assign", shapes[i], Return(0), <<>>)

Next ==
    \/ \E input \in Inputs : New(input)
    \/ \E i \in 1 .. Len(shapes) : CallArea(i)
    \/ \E i \in 1 .. Len(shapes) : CallVolume(i)
    \/ \E i \in 1 .. Len(shapes) : CallCalculateArea(i)
    \/ \E i \in 1 .. Len(shapes) : CallCalculateVolume(i)
    \/ CallTotalArea
    \/ \E i \in 1 .. Len(shapes) : \E f \in Fields(shapes[i].kind) : \E v \in Values :
          Assign(i, f, v)

\* a caller that builds shapes, reads them, assigns to their fields and sums them
Spec == Init /\ [][Next]_vars

NextCall ==
    \/ \E input \in Inputs : New(input)
    \/ \E i \in 1 .. Len(shapes) : CallCalculateArea(i)
    \/ \E i \in 1 .. Len(shapes) : CallCalculateVolume(i)
    \/ \E input \in Inputs : CallCalculateAreaOf(input)
    \/ \E input \in Inputs : CallCalculateVolumeOf(input)

\* a caller of the two wrappers, on a stored shape or on a constructor call
SpecCall == Init /\ [][NextCall]_vars

\* the instances the constructors produce
Constructed == {Construct(input).instance[1] : input \in {x \in Inputs : FieldErrors(x) = {}}}

\* any list of constructed shapes of at most MaxList elements
InitAgg ==
    /\ shapes \in UNION {[1 .. n -> Constructed] : n \in 0 .. MaxList}
    /\ last = Outcome("none", NoArg, Return(0), <<>>)

NextAgg == CallTotalArea

\* total_area_optimized applied to a list of constructed shapes
SpecAgg == InitAgg /\ [][NextAgg]_vars

---------------------------------------------------------------------------
(* Properties *)

\* every field of the record x (a constructor input or an instance) is > 0
AllPositive(x) == \A f \in Fields(x.kind) : x[f] > 0

\* the instance whose fields hold exactly the numbers of `input`
StoredAs(input) ==
    [f \in DOMAIN input |-> IF f = "kind" THEN input[f] ELSE input[f] * Scale]

\* C1: a constructor raises ValidationError and adds no instance whenever some
\* field of its input is <= 0 (zero included, whatever the other fields are),
\* and otherwise succeeds and stores the given values unchanged.
C1_ConstructionValidates ==
    [][last'.op = "construct" =>
          IF AllPositive(last'.arg)
          THEN /\ last'.raised = "none"
               /\ shapes' = Append(shapes, StoredAs(last'.arg))
          ELSE /\ last'.raised = "ValidationError"
               /\ shapes' = shapes]_vars

\* Triangle(base > 0, height = 0) was rejected
C1_Witness ==
    /\ last.op = "construct"
    /\ last.arg.kind = "Triangle"
    /\ last.arg.base > 0
    /\ last.arg.height = 0
    /\ last.raised = "ValidationError"

\* C2: no operation, assignment by a caller included, changes a field of an
\* existing instance, so every field of every instance stays > 0.
C2_InstancesImmutable ==
    [][\A i \in 1 .. Len(shapes) :
          /\ i <= Len(shapes')
          /\ shapes'[i] = shapes[i]
          /\ AllPositive(shapes'[i])]_vars

Scaled(t, kb, kh) == [t EXCEPT !.base = kb * t.base, !.height = kh * t.height]

\* C7: for positive base and height, Triangle.area() is the float nearest to
\* base * height / 2 and Triangle.volume() is that area times base; doubling
\* the height doubles the volume, doubling the base quadruples it.
C7_TriangleFormulas ==
    (last.arg.kind = "Triangle" /\ last.op \in {"area", "volume"} /\ AllPositive(last.arg)) =>
        LET t == last.arg IN
        /\ last.op = "area" => last.value = RoundRat(t.base * t.height, 2 * Scale)
        /\ last.op = "volume" =>
              /\ last.value = FMul(RoundRat(t.base * t.height, 2 * Scale), t.base)
              /\ Volume(Scaled(t, 1, 2)) = 2 * last.value
              /\ Volume(Scaled(t, 2, 1)) = 4 * last.value

\* volume() ran on a triangle whose base and height differ
C7_Witness ==
    /\ last.op = "volume"
    /\ last.arg.kind = "Triangle"
    /\ AllPositive(last.arg)
    /\ last.arg.base > last.arg.height

\* C8: for positive side, Square.area() is the float nearest to side^2,
\* Cube.area() is six times the Square area of the same side, and both
\* volume() methods give the float nearest to side^3.
C8_SquareCubeFormulas ==
    (last.arg.kind \in {"Square", "Cube"} /\ last.op \in {"area", "volume"}
        /\ AllPositive(last.arg)) =>
        LET x == last.arg.side IN
        /\ (last.op = "area" /\ last.arg.kind = "Square") =>
              last.value = RoundRat(x * x, Scale)
        /\ (last.op = "area" /\ last.arg.kind = "Cube") =>
              last.value = FMul(FromNum(6), Area([kind |-> "Square", side |-> x]))
        /\ last.op = "volume" =>
              /\ last.value = RoundRat(x * x * x, Scale * Scale)
              /\ Volume([kind |-> "Square", side |-> x]) = Volume([kind |-> "Cube", side |-> x])

\* area() ran on a cube of side 2
C8_Witness ==
    /\ last.op = "area"
    /\ last.arg.kind = "Cube"
    /\ last.arg.side = 2 * Scale

\* C9: in every reachable state area() and volume() return a non-negative
\* value that depends on the fields only, and the call changes no state.
C9_NonNegativePure ==
    [][last'.op \in {"area", "volume"} =>
          /\ last'.value >= 0
          /\ shapes' = shapes
          /\ last'.value = (IF last'.op = "area" THEN Area(last'.arg) ELSE Volume(last'.arg))]_vars

\* the sum of the areas of list[1..n], added one by one from 0
RECURSIVE AreasAdded(_, _)
AreasAdded(list, n) ==
    IF n = 0 THEN 0 ELSE FAdd(AreasAdded(list, n - 1), Area(list[n]))

\* C3: total_area_optimized returns the sum of the elements' own area(),
\* calling area() on every element exactly once in list order, for any mix
\* of variants and with repeated elements; the empty list gives 0.
C3_TotalIsSumOfAreas ==
    last.op = "total_area_optimized" =>
        /\ last.raised = "none"
        /\ last.value = AreasAdded(shapes, Len(shapes))
        /\ last.visited = [i \in 1 .. Len(shapes) |-> i]
        /\ shapes = <<>> => last.value = 0

\* the total of a list of three shapes of two variants, one shape twice
C3_Witness ==
    /\ last.op = "total_area_optimized"
    /\ Len(shapes) = 3
    /\ shapes[1] = shapes[3]
    /\ shapes[1].kind # shapes[2].kind
    /\ last.value > 0

\* the permutations of 1..n
Perms(n) == Permutations(1 .. n)

Permuted(list, p) == [i \in 1 .. Len(list) |-> list[p[i]]]

\* C4 as stated: every permutation of a list of shapes has the same total.
C4_OrderIndependent ==
    last.op = "total_area_optimized" =>
        \A p \in Perms(Len(shapes)) :
            total_area_optimized(Permuted(shapes, p)).value = last.value

\* the areas of the shapes of `list`, in list order
Areas(list) == [i \in 1 .. Len(list) |-> Area(list[i])]

RECURSIVE ExactSum(_, _)
\* the exact sum of the numbers a[1..n]
ExactSum(a, n) == IF n = 0 THEN 0 ELSE ExactSum(a, n - 1) + a[n]

\* no addition of the left-to-right sum of the numbers of `a` rounds
NoRounding(a) == \A n \in 1 .. Len(a) : RoundRat(ExactSum(a, n), 1) = ExactSum(a, n)

\* C4 amended: two orders of the same shapes have the same total whenever no
\* addition rounds in either order.
C4_OrderIndependentWhenExact ==
    (last.op = "total_area_optimized" /\ NoRounding(Areas(shapes))) =>
        LET a == Areas(shapes) IN
        \A p \in Perms(Len(shapes)) :
            NoRounding(Permuted(a, p)) =>
                total_area_optimized(Permuted(shapes, p)).value = last.value

\* the total of three shapes of different areas whose sums do not round
C4_Witness ==
    /\ last.op = "total_area_optimized"
    /\ Len(shapes) = 3
    /\ Area(shapes[1]) < Area(shapes[2])
    /\ Area(shapes[2]) < Area(shapes[3])
    /\ \A p \in Perms(3) : NoRounding(Permuted(Areas(shapes), p))
    /\ last.value = ExactSum(Areas(shapes), 3)

\* C6 as stated: a validation failure met while evaluating a wrapper call
\* comes back as the value 0.0 with a diagnostic, not as an exception.
C6_FailureBecomesSentinel ==
    (last.op \in {"calculate_area_of", "calculate_volume_of"} /\ ~AllPositive(last.arg)) =>
        /\ last.raised = "none"
        /\ last.value = 0
        /\ last.diag

\* C10: on an instance a constructor produced the wrappers return what
\* area() and volume() return and print nothing; a validation error of a
\* constructor called in the argument reaches the caller.
C10_WrappersTransparent ==
    /\ last.op = "calculate_area" =>
          last.raised = "none" /\ ~last.diag /\ last.value = Area(last.arg)
    /\ last.op = "calculate_volume" =>
          last.raised = "none" /\ ~last.diag /\ last.value = Volume(last.arg)
    /\ last.op \in {"calculate_area_of", "calculate_volume_of"} =>
          /\ ~last.diag
          /\ IF AllPositive(last.arg)
             THEN /\ last.raised = "none"
                  /\ last.value = (IF last.op = "calculate_area_of"
                                   THEN Area(StoredAs(last.arg))
                                   ELSE Volume(StoredAs(last.arg)))
             ELSE last.raised = "ValidationError"

\* calculate_area(Circle(radius=-1)) raised ValidationError
C10_Witness ==
    /\ last.op = "calculate_area_of"
    /\ last.arg.kind = "Circle"
    /\ last.arg.radius < 0
    /\ last.raised = "ValidationError"

====
